---- MODULE Spec2Model ----
(***************************************************************************)
(* A model of ghreport's report.go: the ActivityReport object, the two     *)
(* repository enumerations (listRepositories, listSubsetRepositories), the *)
(* per-repository fetch (reportRepository) and Run's classification of the *)
(* fetched pull requests into the three Result buckets.                    *)
(*                                                                         *)
(* The remote (client.Run of the graphql package) is the environment: it   *)
(* answers every request with an arbitrary response or an error.  Strings  *)
(* the code only copies or compares (names, cursors) are tuples, the empty *)
(* string being the empty tuple.  Timestamps are days since 0001-01-01,    *)
(* the zero time.Time.                                                     *)
(***************************************************************************)
EXTENDS Integers, Sequences, FiniteSets, TLC

VARIABLES
    Log,          \* gr.Log: "nil" or "set"
    logs,         \* the strings the Log callback was handed, in call order
    credits,      \* the remote's rate-limit budget
    requests,     \* the requests handed to client.Run, in order
    responses,    \* the responses client.Run produced, in order
    pc,           \* where the caller's single thread of control is
    cursor,       \* listRepositories: the cursor argument of the next call
    stack,        \* listRepositories: the frames of the recursion
    ret,          \* what the enumeration returned: [names, err]
    Duration,     \* gr.Duration
    ReportDate,   \* gr.ReportDate
    since,        \* Run's local since
    repositories, \* Run's local repositories
    idx,          \* Run's position in the range over repositories
    Result,       \* gr.Result: the three buckets
    runErr,       \* what Run returned
    data,         \* the []PRStruct a caller hands to sort, as it is now
    unsorted      \* that slice as it was before the sort

vars == <<Log, logs, credits, requests, responses, pc, cursor, stack, ret,
          Duration, ReportDate, since, repositories, idx, Result, runErr,
          data, unsorted>>

listVars == <<cursor, stack, ret>>
runVars == <<ReportDate, since, repositories, idx, Result, runErr>>
sortVars == <<data, unsorted>>

----------------------------------------------------------------------------
(* Bounds of the environment *)

\* the remote answers hasNextPage = true on fewer than MaxPages pages in a row
MaxPages == 3
\* a repositories page holds at most MaxNodes names
MaxNodes == 3
\* the pull requests the remote returns over one Run, all lists together
MaxPRs == 2

\* the rate-limit budgets the remote may start with
CreditVals == {1, 5000}
\* the window lengths the caller may construct the report with
Durations == {7, 800000}
\* time.Now() as a day number (2026-11-02)
Clock == {739921}

----------------------------------------------------------------------------
(* Strings *)

EmptyString == <<>>
\* the name of the j-th node of the p-th repositories response
RepoName(p, j) == <<"repo", p, j>>
\* the endCursor of the p-th repositories response
PageCursor(p) == <<"c", p>>

\* fmt.Sprintf("Credits remaining %v\n", n)
CreditsLine(n) == <<"Credits remaining", n>>

----------------------------------------------------------------------------
(* The remote *)

\* rateLimit.remaining of the next response
RemainingAfter(c) == IF c > 0 THEN c - 1 ELSE 0

\* what client.Run leaves in respData when it fails
FailedRepositories ==
    [ok |-> FALSE, Nodes |-> <<>>, HasNextPage |-> FALSE,
     EndCursor |-> EmptyString, Remaining |-> 0]

\* the responses to the p-th repositories request
RepositoriesResponses(p) ==
    {FailedRepositories} \cup
    { [ok |-> TRUE,
       Nodes |-> [j \in 1..n |-> [Name |-> RepoName(p, j)]],
       HasNextPage |-> h,
       EndCursor |-> c,
       Remaining |-> RemainingAfter(credits)] :
         n \in 0..MaxNodes, h \in BOOLEAN, c \in {EmptyString, PageCursor(p)} }

----------------------------------------------------------------------------
(* listRepositories and listSubsetRepositories *)

\* for _, repo := range Nodes { repositories = append(repositories, repo.Name) }
NodeNames(Nodes) == [j \in 1..Len(Nodes) |-> Nodes[j].Name]

\* a slip: the later pages' names put before the earlier page's
AppendRepos_Prepended(repos, additionalRepos) == additionalRepos \o repos

\* repositories = append(repositories, additionalRepos...)
AppendRepos(repos, additionalRepos) == repos \o additionalRepos

\* the request listRepositories builds for a cursor
\* a slip: the cursorless query whatever the cursor
ListRequest_NoCursor(call, c) ==
    [call |-> call, cursor |-> EmptyString, repo |-> EmptyString]

ListRequest(call, c) == [call |-> call, cursor |-> c, repo |-> EmptyString]

\* the frame of one listRepositories call that got its response
Frame(resp) == [repositories |-> NodeNames(resp.Nodes), Remaining |-> resp.Remaining]

RECURSIVE listReturn(_, _)
\* what frame i returns once every deeper frame has returned without error
listReturn(frames, i) ==
    IF i = Len(frames)
    THEN frames[i].repositories
    ELSE AppendRepos(frames[i].repositories, listReturn(frames, i + 1))

RECURSIVE listLogs(_, _)
\* the lines frames i.. hand to logf while they return: the deepest first
listLogs(frames, i) ==
    IF i > Len(frames)
    THEN <<>>
    ELSE Append(listLogs(frames, i + 1), CreditsLine(frames[i].Remaining))

\* a slip: the names gathered so far returned beside the error
listFailure_Partial(frames) ==
    [names |-> IF frames = <<>> THEN <<>> ELSE listReturn(frames, 1), err |-> TRUE]

\* return nil, err: in the failing frame and in every frame above it
listFailure(frames) == [names |-> <<>>, err |-> TRUE]

Init ==
    /\ Log = "nil"
    /\ logs = <<>>
    /\ credits \in CreditVals
    /\ requests = <<>>
    /\ responses = <<>>
    /\ pc = "new"
    /\ cursor = EmptyString
    /\ stack = <<>>
    /\ ret = [names |-> <<>>, err |-> FALSE]
    /\ Duration \in Durations
    /\ ReportDate = 0
    /\ since = 0
    /\ repositories = <<>>
    /\ idx = 0
    /\ Result = [MergedPRs |-> <<>>, OpenPRsWithActivity |-> <<>>,
                 OpenPRsWithoutActivity |-> <<>>]
    /\ runErr = EmptyString
    /\ data = <<>>
    /\ unsorted = <<>>

\* the caller assigns report.Log before it calls anything
SetLog ==
    /\ pc = "new"
    /\ Log = "nil"
    /\ Log' = "set"
    /\ UNCHANGED <<logs, credits, requests, responses, pc, Duration>>
    /\ UNCHANGED listVars
    /\ UNCHANGED runVars
    /\ UNCHANGED sortVars

\* one remote exchange: the request goes out, the response comes back
Exchange(req, resp) ==
    /\ requests' = Append(requests, req)
    /\ responses' = Append(responses, resp)
    /\ credits' = IF resp.ok THEN resp.Remaining ELSE credits

\* a listRepositories call whose client.Run fails: every frame returns nil, err
ListRepositoriesFail ==
    /\ pc \in {"new", "paging"}
    /\ \E resp \in RepositoriesResponses(Len(responses) + 1) :
          /\ ~resp.ok
          /\ Exchange(ListRequest("listRepositories", cursor), resp)
    /\ ret' = listFailure(stack)
    /\ stack' = <<>>
    /\ pc' = "returned"
    /\ UNCHANGED <<Log, logs, cursor, Duration>>
    /\ UNCHANGED runVars
    /\ UNCHANGED sortVars

\* a listRepositories call whose response has HasNextPage: it recurses
ListRepositoriesMore ==
    /\ pc \in {"new", "paging"}
    /\ Len(responses) + 1 < MaxPages
    /\ \E resp \in RepositoriesResponses(Len(responses) + 1) :
          /\ resp.ok
          /\ resp.HasNextPage
          /\ Exchange(ListRequest("listRepositories", cursor), resp)
          /\ stack' = Append(stack, Frame(resp))
          /\ cursor' = resp.EndCursor
    /\ pc' = "paging"
    /\ UNCHANGED <<Log, logs, ret, Duration>>
    /\ UNCHANGED runVars
    /\ UNCHANGED sortVars

\* a listRepositories call whose response has no next page: it logs and
\* returns, and so does every frame above it
ListRepositoriesLast ==
    /\ pc \in {"new", "paging"}
    /\ \E resp \in RepositoriesResponses(Len(responses) + 1) :
          /\ resp.ok
          /\ ~resp.HasNextPage
          /\ Exchange(ListRequest("listRepositories", cursor), resp)
          /\ LET frames == Append(stack, Frame(resp))
             IN  IF Log = "nil"
                 THEN /\ pc' = "panic"
                      /\ stack' = frames
                      /\ UNCHANGED <<logs, ret>>
                 ELSE /\ pc' = "returned"
                      /\ stack' = <<>>
                      /\ logs' = logs \o listLogs(frames, 1)
                      /\ ret' = [names |-> listReturn(frames, 1), err |-> FALSE]
    /\ UNCHANGED <<Log, cursor, Duration>>
    /\ UNCHANGED runVars
    /\ UNCHANGED sortVars

\* a slip: the range over the nodes starting one node late
listSubsetRepositories_SkipFirst(resp) ==
    IF resp.ok
    THEN [names |-> IF resp.Nodes = <<>> THEN <<>> ELSE Tail(NodeNames(resp.Nodes)),
          err |-> FALSE, lines |-> <<CreditsLine(resp.Remaining)>>]
    ELSE [names |-> <<>>, err |-> TRUE, lines |-> <<>>]

\* what listSubsetRepositories does with its one response: the names of the
\* page, and the line it hands to logf before it returns them
listSubsetRepositories(resp) ==
    IF resp.ok
    THEN [names |-> NodeNames(resp.Nodes), err |-> FALSE,
          lines |-> <<CreditsLine(resp.Remaining)>>]
    ELSE [names |-> <<>>, err |-> TRUE, lines |-> <<>>]

\* listSubsetRepositories called on its own, client.Run failing
ListSubsetFail ==
    /\ pc = "new"
    /\ \E resp \in RepositoriesResponses(1) :
          /\ ~resp.ok
          /\ Exchange(ListRequest("listSubsetRepositories", EmptyString), resp)
          /\ LET out == listSubsetRepositories(resp)
             IN  ret' = [names |-> out.names, err |-> out.err]
    /\ pc' = "returned"
    /\ UNCHANGED <<Log, logs, cursor, stack, Duration>>
    /\ UNCHANGED runVars
    /\ UNCHANGED sortVars

\* listSubsetRepositories called on its own, client.Run answering
ListSubsetOk ==
    /\ pc = "new"
    /\ \E resp \in RepositoriesResponses(1) :
          /\ resp.ok
          /\ Exchange(ListRequest("listSubsetRepositories", EmptyString), resp)
          /\ LET out == listSubsetRepositories(resp)
             IN  IF Log = "nil"
                 THEN /\ pc' = "panic"
                      /\ UNCHANGED <<logs, ret>>
                 ELSE /\ pc' = "returned"
                      /\ logs' = logs \o out.lines
                      /\ ret' = [names |-> out.names, err |-> out.err]
    /\ UNCHANGED <<Log, cursor, stack, Duration>>
    /\ UNCHANGED runVars
    /\ UNCHANGED sortVars

NextList ==
    \/ SetLog
    \/ ListRepositoriesFail
    \/ ListRepositoriesMore
    \/ ListRepositoriesLast
    \/ ListSubsetFail
    \/ ListSubsetOk

SpecList == Init /\ [][NextList]_vars

----------------------------------------------------------------------------
(* Timestamps *)

\* time.Time{}: what time.Parse returns beside an error
ZeroTime == 0

\* the timestamp strings of the model: time.Parse(ISO_FORM, s) accepts those
\* of IsoDays and gives the day, and rejects every other string
IsoDays ==
    ("2026-11-01T00:00:00Z" :> 739920) @@
    ("2026-10-26T00:00:00Z" :> 739914) @@
    ("2026-10-23T00:00:00Z" :> 739911) @@
    ("2026-10-01T00:00:00Z" :> 739889) @@
    ("0001-01-01T00:00:00Z" :> 0) @@
    ("0000-06-01T00:00:00Z" :> -214)
\* the mergedAt strings the remote may send
MergedAtVals ==
    {"2026-11-01T00:00:00Z", "2026-10-26T00:00:00Z", "2026-10-23T00:00:00Z",
     "", "not-a-date"}

\* time.Parse(ISO_FORM, s)
timeParse(s) ==
    IF s \in DOMAIN IsoDays
    THEN [t |-> IsoDays[s], err |-> FALSE]
    ELSE [t |-> ZeroTime, err |-> TRUE]

\* t.After(u)
After(t, u) == t > u

\* now.AddDate(0, 0, -days)
SinceOf(now, days) == now - days

----------------------------------------------------------------------------
(* Run *)

\* the timeline counts the remote may send for an open pull request
CountVals == {-1, 0, 3}

\* what the decoder may find for PRStruct.Repository in a response: nothing,
\* the queries not selecting it, or a name the remote put there all the same
RepositoryVals == {EmptyString, <<"elsewhere">>}

\* the j-th pull request of a report response, as decoded into a PRStruct
MergedNode(j, mergedAt) ==
    [Number |-> j, Repository |-> EmptyString, CreatedAt |-> "2026-10-01T00:00:00Z",
     MergedAt |-> mergedAt, State |-> "", TotalCount |-> 0]
\* a slip: the open query without its states filter, a closed pull request
\* coming back
OpenNode_Closed(j, count) ==
    [Number |-> j, Repository |-> EmptyString, CreatedAt |-> "2026-10-01T00:00:00Z",
     MergedAt |-> "", State |-> "CLOSED", TotalCount |-> count]

\* a pull request of the open query, which asks for states: [OPEN]
OpenNode(j, count) ==
    [Number |-> j, Repository |-> EmptyString, CreatedAt |-> "2026-10-01T00:00:00Z",
     MergedAt |-> "", State |-> "OPEN", TotalCount |-> count]

SeqsUpTo(S, n) == UNION {[1..k -> S] : k \in 0..n}

\* what client.Run leaves in respData when it fails
FailedReport == [ok |-> FALSE, MergedPR |-> <<>>, OpenPR |-> <<>>, Remaining |-> 0]

RECURSIVE NodesSent(_)
\* the pull requests the report responses of rs hold
NodesSent(rs) ==
    IF rs = <<>>
    THEN 0
    ELSE Len(Head(rs).MergedPR) + Len(Head(rs).OpenPR) + NodesSent(Tail(rs))

\* the responses to a report request, the remote having left pull requests to
\* send: pull request numbers are unique within the repository only
ReportResponses(left) ==
    {FailedReport} \cup
    { [ok |-> TRUE,
       MergedPR |-> [j \in 1..Len(m) |->
                        [MergedNode(j, m[j]) EXCEPT !.Repository = r]],
       OpenPR |-> [j \in 1..Len(o) |->
                        [OpenNode(Len(m) + j, o[j]) EXCEPT !.Repository = r]],
       Remaining |-> RemainingAfter(credits)] :
         m \in SeqsUpTo(MergedAtVals, left), o \in SeqsUpTo(CountVals, left),
         r \in RepositoryVals }

\* a slip: the record appended as it came
Stamp_AsReceived(pullrequest, repoName) == pullrequest

\* pullrequest.Repository = repoName
Stamp(pullrequest, repoName) == [pullrequest EXCEPT !.Repository = repoName]

\* if t.After(since): whether Run keeps a merged pull request
KeepMerged(pullrequest, cutoff) == After(timeParse(pullrequest.MergedAt).t, cutoff)

\* a slip: >= for >
HasActivity_NonNegative(pullrequest) == pullrequest.TotalCount >= 0

\* if pullrequest.Timeline.TotalCount > 0
HasActivity(pullrequest) == pullrequest.TotalCount > 0

RECURSIVE ExtractMerged_Dedup(_, _, _, _)
\* a slip: a pull request whose number the bucket already holds is merged
\* into the record that is there
ExtractMerged_Dedup(bucket, nodes, repoName, cutoff) ==
    IF nodes = <<>>
    THEN bucket
    ELSE ExtractMerged_Dedup(
            IF /\ After(timeParse(Head(nodes).MergedAt).t, cutoff)
               /\ \A k \in 1..Len(bucket) : bucket[k].Number # Head(nodes).Number
            THEN Append(bucket, [Head(nodes) EXCEPT !.Repository = repoName])
            ELSE bucket,
            Tail(nodes), repoName, cutoff)

RECURSIVE ExtractMerged(_, _, _, _)
\* the range over report.Repository.MergedPR.Nodes
ExtractMerged(bucket, nodes, repoName, cutoff) ==
    IF nodes = <<>>
    THEN bucket
    ELSE ExtractMerged(
            IF KeepMerged(Head(nodes), cutoff)
            THEN Append(bucket, Stamp(Head(nodes), repoName))
            ELSE bucket,
            Tail(nodes), repoName, cutoff)

RECURSIVE ExtractOpen(_, _, _)
\* the range over report.Repository.OpenPR.Nodes
ExtractOpen(result, nodes, repoName) ==
    IF nodes = <<>>
    THEN result
    ELSE ExtractOpen(
            IF HasActivity(Head(nodes))
            THEN [result EXCEPT !.OpenPRsWithActivity =
                                    Append(@, Stamp(Head(nodes), repoName))]
            ELSE [result EXCEPT !.OpenPRsWithoutActivity =
                                    Append(@, Stamp(Head(nodes), repoName))],
            Tail(nodes), repoName)

\* a slip: a report that comes with no credits left is set aside
BuildReport_Throttled(result, report, repoName, cutoff) ==
    IF report.Remaining = 0
    THEN result
    ELSE ExtractOpen(
            [result EXCEPT !.MergedPRs = ExtractMerged(@, report.MergedPR, repoName, cutoff)],
            report.OpenPR, repoName)

\* a slip: the buckets emptied before a report is built into them
BuildReport_Fresh(result, report, repoName, cutoff) ==
    ExtractOpen(
        [MergedPRs |-> ExtractMerged(<<>>, report.MergedPR, repoName, cutoff),
         OpenPRsWithActivity |-> <<>>, OpenPRsWithoutActivity |-> <<>>],
        report.OpenPR, repoName)

\* the else branch of Run's loop body: one report built into gr.Result
BuildReport(result, report, repoName, cutoff) ==
    ExtractOpen(
        [result EXCEPT !.MergedPRs = ExtractMerged(@, report.MergedPR, repoName, cutoff)],
        report.OpenPR, repoName)

\* a slip: the name variable of the request left unset
ReportRequest_Unnamed(repoName) ==
    [call |-> "reportRepository", cursor |-> EmptyString, repo |-> EmptyString]

\* the request reportRepository builds
ReportRequest(repoName) ==
    [call |-> "reportRepository", cursor |-> EmptyString, repo |-> repoName]

\* a slip: the message without its phase
ListingError_NoPhase == <<"An error occured">>

\* errors.New(fmt.Sprintf(...)): the two messages Run returns
ListingError == <<"An error occured during repositories listing">>
\* a slip: the message formatted without the repository's name
ReportError_Unnamed(repoName) == <<"An error occured during report for", EmptyString>>
ReportError(repoName) == <<"An error occured during report for", repoName>>

\* the three lines Run logs before it returns nil
SummaryLines(result) ==
    << <<"Nb merged pr", Len(result.MergedPRs)>>,
       <<"Nb open pr with activity", Len(result.OpenPRsWithActivity)>>,
       <<"Nb open pr without activity", Len(result.OpenPRsWithoutActivity)>> >>

\* Run up to the failure of listSubsetRepositories
RunListFail ==
    /\ pc = "new"
    /\ \E now \in Clock, resp \in RepositoriesResponses(1) :
          /\ ~resp.ok
          /\ ReportDate' = now
          /\ since' = SinceOf(now, Duration)
          /\ Exchange(ListRequest("listSubsetRepositories", EmptyString), resp)
    /\ runErr' = ListingError
    /\ pc' = "failed"
    /\ UNCHANGED <<Log, logs, Duration, repositories, idx, Result>>
    /\ UNCHANGED listVars
    /\ UNCHANGED sortVars

\* Run up to the return of listSubsetRepositories
RunListOk ==
    /\ pc = "new"
    /\ \E now \in Clock, resp \in RepositoriesResponses(1) :
          /\ resp.ok
          /\ ReportDate' = now
          /\ since' = SinceOf(now, Duration)
          /\ Exchange(ListRequest("listSubsetRepositories", EmptyString), resp)
          /\ LET out == listSubsetRepositories(resp)
             IN  IF Log = "nil"
                 THEN /\ pc' = "panic"
                      /\ UNCHANGED <<logs, repositories, idx>>
                 ELSE /\ pc' = "reporting"
                      /\ logs' = logs \o out.lines
                      /\ repositories' = out.names
                      /\ idx' = 1
    /\ UNCHANGED <<Log, Duration, Result, runErr>>
    /\ UNCHANGED listVars
    /\ UNCHANGED sortVars

\* one turn of Run's loop whose reportRepository fails
RunReportFail ==
    /\ pc = "reporting"
    /\ idx <= Len(repositories)
    /\ \E resp \in ReportResponses(0) :
          /\ ~resp.ok
          /\ Exchange(ReportRequest(repositories[idx]), resp)
    /\ runErr' = ReportError(repositories[idx])
    /\ pc' = "failed"
    /\ UNCHANGED <<Log, logs, Duration, ReportDate, since, repositories, idx, Result>>
    /\ UNCHANGED listVars
    /\ UNCHANGED sortVars

\* one turn of Run's loop whose reportRepository returns a report
RunReportOk ==
    /\ pc = "reporting"
    /\ idx <= Len(repositories)
    /\ \E resp \in ReportResponses(MaxPRs - NodesSent(Tail(responses))) :
          /\ resp.ok
          /\ Len(resp.MergedPR) + Len(resp.OpenPR) <= MaxPRs - NodesSent(Tail(responses))
          /\ Exchange(ReportRequest(repositories[idx]), resp)
          /\ IF Log = "nil"
             THEN /\ pc' = "panic"
                  /\ UNCHANGED <<logs, Result, idx>>
             ELSE /\ pc' = "reporting"
                  /\ logs' = Append(logs, CreditsLine(resp.Remaining))
                  /\ Result' = BuildReport(Result, resp, repositories[idx], since)
                  /\ idx' = idx + 1
    /\ UNCHANGED <<Log, Duration, ReportDate, since, repositories, runErr>>
    /\ UNCHANGED listVars
    /\ UNCHANGED sortVars

\* the end of Run's loop: the summary is logged and Run returns nil
RunReturn ==
    /\ pc = "reporting"
    /\ idx > Len(repositories)
    /\ IF Log = "nil"
       THEN /\ pc' = "panic"
            /\ UNCHANGED logs
       ELSE /\ pc' = "done"
            /\ logs' = logs \o SummaryLines(Result)
    /\ UNCHANGED <<Log, credits, requests, responses, Duration>>
    /\ UNCHANGED runVars
    /\ UNCHANGED listVars
    /\ UNCHANGED sortVars

Next ==
    \/ SetLog
    \/ RunListFail
    \/ RunListOk
    \/ RunReportFail
    \/ RunReportOk
    \/ RunReturn

Spec == Init /\ [][Next]_vars

----------------------------------------------------------------------------
(* Run called again on the same ActivityReport *)

\* the report an earlier Run was given for its one repository
EarlierReports ==
    { [ok |-> TRUE,
       MergedPR |-> <<MergedNode(1, "2026-11-01T00:00:00Z")>>,
       OpenPR |-> <<OpenNode(2, 3)>>,
       Remaining |-> 0] }

\* the report as an earlier Run, with Log set, has left it: gr.Result holds
\* what that Run built, and nothing of the new Run has happened yet
InitAgain ==
    /\ Log = "set"
    /\ logs = <<>>
    /\ credits \in CreditVals
    /\ requests = <<>>
    /\ responses = <<>>
    /\ pc = "new"
    /\ cursor = EmptyString
    /\ stack = <<>>
    /\ ret = [names |-> <<>>, err |-> FALSE]
    /\ Duration \in Durations
    /\ \E now \in Clock, report \in EarlierReports :
          /\ ReportDate = now
          /\ Result = BuildReport(
                        [MergedPRs |-> <<>>, OpenPRsWithActivity |-> <<>>,
                         OpenPRsWithoutActivity |-> <<>>],
                        report, RepoName(1, 1), SinceOf(now, Duration))
    /\ since = 0
    /\ repositories = <<>>
    /\ idx = 0
    /\ runErr = EmptyString
    /\ data = <<>>
    /\ unsorted = <<>>

NextAgain ==
    \/ RunListFail
    \/ RunListOk
    \/ RunReportFail
    \/ RunReportOk
    \/ RunReturn

SpecAgain == InitAgain /\ [][NextAgain]_vars

----------------------------------------------------------------------------
(* ByActivity and ByAge *)

\* a caller's slice holds at most MaxSlice pull requests
MaxSlice == 3

\* the counts and the createdAt strings of the pull requests of a slice
SortCounts == {0, 3}
CreatedAtVals ==
    {"", "0000-06-01T00:00:00Z", "0001-01-01T00:00:00Z",
     "2026-10-01T00:00:00Z", "2026-10-23T00:00:00Z"}

\* the j-th PRStruct of a slice: its Number tells where it stood
SliceNode(j, kind) ==
    [Number |-> j, Repository |-> RepoName(1, 1), CreatedAt |-> kind[2],
     MergedAt |-> "", State |-> "OPEN", TotalCount |-> kind[1]]

\* the slices a caller may hand to sort
Slices ==
    { [j \in 1..Len(kinds) |-> SliceNode(j, kinds[j])] :
        kinds \in SeqsUpTo(SortCounts \X CreatedAtVals, MaxSlice) }

\* a slip: the comparison turned round
ByActivityLess_Ascending(a, i, j) == a[i].TotalCount < a[j].TotalCount

\* func (a ByActivity) Less(i, j int) bool
ByActivityLess(a, i, j) == a[i].TotalCount > a[j].TotalCount

\* func (a ByAge) Less(i, j int) bool
ByAgeLess(a, i, j) ==
    LET ti == timeParse(a[i].CreatedAt).t
        tj == timeParse(a[j].CreatedAt).t
    IN  After(tj, ti)

\* what Len and Swap allow a sort to make of a: its rearrangements
Rearrangements(a) ==
    { [k \in 1..Len(a) |-> a[p[k]]] :
        p \in {q \in [1..Len(a) -> 1..Len(a)] : \A x, y \in 1..Len(a) : q[x] = q[y] => x = y} }

\* the slice is constructed and handed over
InitSort ==
    /\ Log = "nil"
    /\ logs = <<>>
    /\ credits \in CreditVals
    /\ requests = <<>>
    /\ responses = <<>>
    /\ pc = "slice"
    /\ cursor = EmptyString
    /\ stack = <<>>
    /\ ret = [names |-> <<>>, err |-> FALSE]
    /\ Duration \in Durations
    /\ ReportDate = 0
    /\ since = 0
    /\ repositories = <<>>
    /\ idx = 0
    /\ Result = [MergedPRs |-> <<>>, OpenPRsWithActivity |-> <<>>,
                 OpenPRsWithoutActivity |-> <<>>]
    /\ runErr = EmptyString
    /\ data \in Slices
    /\ unsorted = data

\* sort.Sort(ByActivity(data)): some rearrangement in which no element is
\* Less than the one before it; sort.Sort promises no more than that
SortByActivity ==
    /\ pc = "slice"
    /\ data' \in {b \in Rearrangements(data) :
                    \A k \in 1..(Len(b) - 1) : ~ByActivityLess(b, k + 1, k)}
    /\ pc' = "byActivity"
    /\ UNCHANGED <<Log, logs, credits, requests, responses, Duration, unsorted>>
    /\ UNCHANGED listVars
    /\ UNCHANGED runVars

\* sort.Sort(ByAge(data))
SortByAge ==
    /\ pc = "slice"
    /\ data' \in {b \in Rearrangements(data) :
                    \A k \in 1..(Len(b) - 1) : ~ByAgeLess(b, k + 1, k)}
    /\ pc' = "byAge"
    /\ UNCHANGED <<Log, logs, credits, requests, responses, Duration, unsorted>>
    /\ UNCHANGED listVars
    /\ UNCHANGED runVars

NextSort == SortByActivity \/ SortByAge

SpecSort == InitSort /\ [][NextSort]_vars

----------------------------------------------------------------------------
(* Properties of the enumerations *)

\* which enumeration the caller started
FullTraversal == requests # <<>> /\ requests[1].call = "listRepositories"
SubsetTraversal == requests # <<>> /\ requests[1].call = "listSubsetRepositories"

RECURSIVE ConcatPages(_)
\* the names of a sequence of responses, page after page
ConcatPages(rs) ==
    IF rs = <<>>
    THEN <<>>
    ELSE [j \in 1..Len(Head(rs).Nodes) |-> Head(rs).Nodes[j].Name]
         \o ConcatPages(Tail(rs))

\* how often x occurs in the sequence s
Count(s, x) == Cardinality({i \in 1..Len(s) : s[i] = x})

\* C1: a full traversal that returns without error returns the names of all
\* the pages it received, page 1 first and in response order within a page,
\* nothing dropped and nothing duplicated.
C1_FullTraversalConcatenates ==
    (FullTraversal /\ pc = "returned" /\ ~ret.err) =>
        /\ \A i \in 1..Len(responses) :
              responses[i].ok /\ (responses[i].HasNextPage <=> i < Len(responses))
        /\ ret.names = ConcatPages(responses)

\* C1 witness: three non-empty pages, hasNextPage = [true, true, false]
C1_ThreePagesReturned ==
    /\ FullTraversal /\ pc = "returned" /\ ~ret.err
    /\ Len(responses) = 3
    /\ \A i \in 1..3 : Len(responses[i].Nodes) = 2
    /\ Len(ret.names) = 6

\* C7: when a page's fetch fails the full traversal returns the error and no
\* names, and the failing request is the last request of the traversal.
C7_FailureDiscardsPartialNames ==
    \A i \in 1..Len(responses) :
        (FullTraversal /\ ~responses[i].ok) =>
            /\ i = Len(responses)
            /\ Len(requests) = i
            /\ pc = "returned"
            /\ ret.err
            /\ ret.names = <<>>

\* C7 witness: the third page fails after two pages with names
C7_ThirdPageFailed ==
    /\ FullTraversal /\ pc = "returned" /\ ret.err
    /\ Len(responses) = 3
    /\ Len(responses[1].Nodes) = 2
    /\ Len(responses[2].Nodes) = 1

\* C8: the bounded enumeration issues one request and returns the names of
\* that one response in response order, whatever its hasNextPage; the full
\* traversal of a two-page remote returns the names of both pages.
C8_SubsetReturnsFirstPageOnly ==
    /\ SubsetTraversal =>
          /\ Len(requests) = 1
          /\ pc \in {"returned", "panic"}
          /\ (pc = "returned" /\ ~ret.err) =>
                /\ Len(ret.names) = Len(responses[1].Nodes)
                /\ \A j \in 1..Len(ret.names) : ret.names[j] = responses[1].Nodes[j].Name
    /\ (FullTraversal /\ pc = "returned" /\ ~ret.err /\ Len(responses) = 2) =>
          /\ Len(ret.names) = Len(responses[1].Nodes) + Len(responses[2].Nodes)
          /\ \A j \in 1..Len(responses[1].Nodes) :
                ret.names[j] = responses[1].Nodes[j].Name
          /\ \A j \in 1..Len(responses[2].Nodes) :
                ret.names[Len(responses[1].Nodes) + j] = responses[2].Nodes[j].Name

\* C8 witness: the bounded enumeration returned a page that has a next page
C8_SubsetIgnoredNextPage ==
    /\ SubsetTraversal /\ pc = "returned" /\ ~ret.err
    /\ responses[1].HasNextPage
    /\ responses[1].EndCursor = PageCursor(1)
    /\ Len(ret.names) = 2

\* C9 as claimed: once the full traversal of a report that has a logging sink
\* has returned, with or without an error, every page response it received
\* (from a remote that keeps the PageInfo invariant) has had its remaining
\* value handed to the sink exactly once.
C9_EveryReceivedPageLogged ==
    (/\ FullTraversal /\ Log = "set" /\ pc = "returned"
     /\ \A i \in 1..Len(responses) :
           responses[i].HasNextPage => responses[i].EndCursor = PageCursor(i)) =>
        \A i \in 1..Len(responses) :
            responses[i].ok =>
                Count(logs, CreditsLine(responses[i].Remaining))
                  = Cardinality({k \in 1..Len(responses) :
                        responses[k].ok /\ responses[k].Remaining = responses[i].Remaining})

\* the PageInfo invariant: a page that has a next page names its end cursor
PageInfoInvariant ==
    \A i \in 1..Len(responses) :
        (responses[i].ok /\ responses[i].HasNextPage) =>
            responses[i].EndCursor # EmptyString

\* C14: the first request of a full traversal carries no cursor and each later
\* one carries the endCursor of the response just before it; if every page
\* with a next page names its end cursor, no later request is cursorless and
\* no two requests are the same.
C14_CursorProtocol ==
    FullTraversal =>
        /\ requests[1].cursor = EmptyString
        /\ \A i \in 2..Len(requests) :
              requests[i].cursor = responses[i - 1].EndCursor
        /\ PageInfoInvariant =>
              /\ \A i \in 2..Len(requests) : requests[i].cursor # EmptyString
              /\ \A i, j \in 1..Len(requests) : requests[i] = requests[j] => i = j

\* C14 witness: three requests sent, the second and third with the cursors
\* the first and second pages ended on
C14_ThreeRequestsFollowCursors ==
    /\ FullTraversal
    /\ Len(requests) = 3
    /\ requests[2].cursor = PageCursor(1)
    /\ requests[3].cursor = PageCursor(2)

\* whether response i ends a traversal: an error, or a page with no next page
Terminal(i) == ~responses[i].ok \/ ~responses[i].HasNextPage

\* C15: when response k of a full traversal is the first that is an error or
\* has no next page, the traversal has sent exactly k requests and has
\* returned; as long as every response has a next page it goes on paging.
C15_ReturnsAfterFirstTerminalPage ==
    FullTraversal =>
        /\ \A k \in 1..Len(responses) :
              (Terminal(k) /\ \A i \in 1..(k - 1) : ~Terminal(i)) =>
                  /\ Len(requests) = k
                  /\ pc = "returned"
        /\ (\A i \in 1..Len(responses) : ~Terminal(i)) => pc = "paging"

----------------------------------------------------------------------------
(* Properties of Run *)

\* the report responses Run has classified, as indices into responses: the
\* i-th response answers the request for repositories[i - 1]
Classified == {i \in 2..Len(responses) : responses[i].ok /\ pc # "panic"}

\* the record Run makes of a node of the report for repositories[i - 1]
Record(i, node) == [node EXCEPT !.Repository = repositories[i - 1]]

\* C2 as claimed: a merged pull request of a classified report is in
\* Result.MergedPRs if and only if its mergedAt parses and the parsed time
\* is strictly after since.
C2_MergedIffParsedAfterSince ==
    \A i \in Classified :
        \A j \in 1..Len(responses[i].MergedPR) :
            LET node == responses[i].MergedPR[j]
            IN  (Count(Result.MergedPRs, Record(i, node)) > 0)
                  <=> (node.MergedAt \in DOMAIN IsoDays /\ IsoDays[node.MergedAt] > since)

\* C3: every open pull request of a classified report is once in
\* OpenPRsWithActivity and not in OpenPRsWithoutActivity when its count is
\* > 0, and once in OpenPRsWithoutActivity and not in OpenPRsWithActivity
\* otherwise.
C3_OpenPRsPartitioned ==
    \A i \in Classified :
        \A j \in 1..Len(responses[i].OpenPR) :
            LET node == responses[i].OpenPR[j]
                with == Count(Result.OpenPRsWithActivity, Record(i, node))
                without == Count(Result.OpenPRsWithoutActivity, Record(i, node))
            IN  IF node.TotalCount > 0
                THEN with = 1 /\ without = 0
                ELSE with = 0 /\ without = 1

\* C3 witness: a report with an open pull request of negative count and one
\* of positive count has been classified
C3_NegativeAndPositiveClassified ==
    \E i \in Classified :
        /\ Len(responses[i].OpenPR) = 2
        /\ responses[i].OpenPR[1].TotalCount < 0
        /\ responses[i].OpenPR[2].TotalCount > 0

\* C4: when the report call for the k-th repository fails, Run has returned
\* an error naming that repository, the failed request was the only one for
\* that repository and is the last request of the run.
C4_ReportFailureAborts ==
    \A i \in 2..Len(responses) :
        ~responses[i].ok =>
            /\ pc = "failed"
            /\ runErr = <<"An error occured during report for", repositories[i - 1]>>
            /\ i = Len(responses)
            /\ Len(requests) = i
            /\ Cardinality({k \in 1..Len(requests) :
                              requests[k].repo = repositories[i - 1]}) = 1
            /\ \A n \in i..Len(repositories) :
                  \A k \in 1..Len(requests) : requests[k].repo # repositories[n]

\* C4 witness: the report call failed for the second of three repositories,
\* the first one's report having been classified
C4_SecondOfThreeFailed ==
    /\ pc = "failed"
    /\ Len(repositories) = 3
    /\ Len(responses) = 3
    /\ responses[2].ok
    /\ ~responses[3].ok
    /\ Len(Result.OpenPRsWithActivity) = 1

\* C5 as claimed: after a failed Run (of an ordinary window, since after the
\* zero time) the three buckets hold no records.
C5_FailedRunLeavesNoRecords ==
    (pc = "failed" /\ since > ZeroTime) =>
        /\ Result.MergedPRs = <<>>
        /\ Result.OpenPRsWithActivity = <<>>
        /\ Result.OpenPRsWithoutActivity = <<>>

\* C6 as claimed: on a report without a Log callback a logging call is a
\* no-op, so Run is never cut short by it.
C6_NilLogIsNoOp == Log = "nil" => pc # "panic"

RECURSIVE Flatten(_)
\* the concatenation of a sequence of sequences
Flatten(seqs) == IF seqs = <<>> THEN <<>> ELSE Head(seqs) \o Flatten(Tail(seqs))

\* the records of the nodes that qualify, list after list: lists is a
\* sequence of node lists, the i-th from the report for repositories[i]
Qualifying(lists, Test(_)) ==
    Flatten([i \in 1..Len(lists) |->
               SelectSeq([j \in 1..Len(lists[i]) |->
                            [lists[i][j] EXCEPT !.Repository = repositories[i]]],
                         Test)])

\* C10: after a successful Run each bucket is the concatenation, over the
\* repositories in enumeration order, of the repository's qualifying pull
\* requests in response order, every one of them a record of its own.
C10_BucketsAreConcatenations ==
    pc = "done" =>
        LET merged == [i \in 1..Len(repositories) |-> responses[i + 1].MergedPR]
            open == [i \in 1..Len(repositories) |-> responses[i + 1].OpenPR]
            IsRecent(pr) == timeParse(pr.MergedAt).t > since
            IsActive(pr) == pr.TotalCount > 0
            IsIdle(pr) == ~(pr.TotalCount > 0)
        IN  /\ Len(responses) = Len(repositories) + 1
            /\ Result.MergedPRs = Qualifying(merged, IsRecent)
            /\ Result.OpenPRsWithActivity = Qualifying(open, IsActive)
            /\ Result.OpenPRsWithoutActivity = Qualifying(open, IsIdle)

\* C10 witness: two repositories each had a merged pull request number 1
\* that was kept
C10_SameNumberKeptTwice ==
    /\ pc = "done"
    /\ Len(Result.MergedPRs) = 2
    /\ Result.MergedPRs[1].Number = Result.MergedPRs[2].Number
    /\ Result.MergedPRs[1].Repository = repositories[1]
    /\ Result.MergedPRs[2].Repository = repositories[2]

----------------------------------------------------------------------------
(* Properties of the orderings *)

\* whether createdAt parses, and the day it parses to
ParsesOk(s) == s \in DOMAIN IsoDays

\* C11 as claimed: Less(i, j) holds exactly when j was created strictly later
\* than i, an unparseable createdAt being older than every parseable one and
\* as old as any other unparseable one.
C11_UnparseableIsOldest ==
    \A i, j \in 1..Len(data) :
        ByAgeLess(data, i, j) <=>
            IF ParsesOk(data[i].CreatedAt)
            THEN /\ ParsesOk(data[j].CreatedAt)
                 /\ IsoDays[data[j].CreatedAt] > IsoDays[data[i].CreatedAt]
            ELSE ParsesOk(data[j].CreatedAt)

----------------------------------------------------------------------------
(* Further properties of Run *)

AllRecords ==
    Result.MergedPRs \o Result.OpenPRsWithActivity \o Result.OpenPRsWithoutActivity

\* C16: at every point of a Run, each record of each bucket names in
\* Repository the enumerated repository whose report response held it,
\* whatever Repository value that response gave it.
C16_RecordsNameTheirRepository ==
    \A k \in 1..Len(AllRecords) :
        \E i \in 2..Len(responses) :
            /\ responses[i].ok
            /\ requests[i].repo = repositories[i - 1]
            /\ AllRecords[k].Repository = repositories[i - 1]
            /\ \E node \in {responses[i].MergedPR[j] : j \in 1..Len(responses[i].MergedPR)}
                      \cup {responses[i].OpenPR[j] : j \in 1..Len(responses[i].OpenPR)} :
                  AllRecords[k] = [node EXCEPT !.Repository = repositories[i - 1]]

\* C16 witness: the report of the second repository held a pull request that
\* named another repository, and a bucket holds it under the second's name
C16_ForeignNameOverwritten ==
    /\ Len(responses) >= 3
    /\ responses[3].ok
    /\ responses[3].OpenPR # <<>>
    /\ responses[3].OpenPR[1].Repository = <<"elsewhere">>
    /\ \E k \in 1..Len(AllRecords) : AllRecords[k].Repository = repositories[2]

\* the responses of the run with their rate-limit snapshots blanked
RateLimitErased ==
    [i \in 1..Len(responses) |-> [responses[i] EXCEPT !.Remaining = 0]]

NoRecords ==
    [MergedPRs |-> <<>>, OpenPRsWithActivity |-> <<>>, OpenPRsWithoutActivity |-> <<>>]

RECURSIVE Replayed(_, _, _, _)
\* the buckets as the blanked responses i.. alone determine them
Replayed(result, es, i, cutoff) ==
    IF i > Len(es) \/ ~es[i].ok
    THEN result
    ELSE Replayed(
            ExtractOpen(
                [result EXCEPT !.MergedPRs =
                    ExtractMerged(@, es[i].MergedPR, es[1].Nodes[i - 1].Name, cutoff)],
                es[i].OpenPR, es[1].Nodes[i - 1].Name),
            es, i + 1, cutoff)

\* C17: the requests of a Run, its buckets and its outcome are determined by
\* the responses with their rate-limit snapshots blanked, so two Runs whose
\* responses differ in the snapshots only (a remaining of 0 included) send
\* the same requests and end alike; every listed repository is asked for.
C17_RateLimitIsAdvisory ==
    LET es == RateLimitErased
        n == Len(es)
    IN  /\ Len(requests) = n
        /\ \A i \in 1..n :
              requests[i] = IF i = 1
                            THEN ListRequest("listSubsetRepositories", EmptyString)
                            ELSE ReportRequest(es[1].Nodes[i - 1].Name)
        /\ Result = IF Log = "nil" THEN NoRecords ELSE Replayed(NoRecords, es, 2, since)
        /\ pc = "failed" <=> (n > 0 /\ ~es[n].ok)
        /\ pc = "panic" <=> (n > 0 /\ es[n].ok /\ Log = "nil")
        /\ pc = "failed" =>
              runErr = IF n = 1 THEN ListingError ELSE ReportError(es[1].Nodes[n - 1].Name)
        /\ pc = "done" => (runErr = EmptyString /\ n = 1 + Len(es[1].Nodes))

\* C17 witness: a Run ended well and kept a pull request that came with a
\* remaining of 0
C17_KeptWithNoCreditsLeft ==
    /\ pc = "done"
    /\ Len(responses) = 3
    /\ responses[1].Remaining = 0
    /\ responses[3].Remaining = 0
    /\ responses[3].OpenPR # <<>>
    /\ responses[3].OpenPR[1].TotalCount > 0
    /\ Result.OpenPRsWithActivity # <<>>

\* C19: a Run sends one listing request of the bounded kind and then report
\* requests only, the i-th of them for the i-th name of the listed page, each
\* after the response to the one before; a Run that ends well has sent
\* 1 + N requests, N the number of names on the page, whether or not the page
\* has a next page.
C19_OneListingThenOneReportPerName ==
    /\ Len(requests) = Len(responses)
    /\ requests # <<>> =>
          /\ requests[1].call = "listSubsetRepositories"
          /\ requests[1].cursor = EmptyString
          /\ Len(requests) <= 1 + Len(responses[1].Nodes)
    /\ \A i \in 2..Len(requests) :
          /\ requests[i].call = "reportRepository"
          /\ requests[i].repo = responses[1].Nodes[i - 1].Name
          /\ responses[i - 1].ok
    /\ pc = "done" => Len(requests) = 1 + Len(responses[1].Nodes)

\* C19 witness: a Run has ended well after four requests, its listed page of
\* three names having a next page
C19_FourCallsDespiteNextPage ==
    /\ pc = "done"
    /\ responses[1].HasNextPage
    /\ Len(responses[1].Nodes) = 3
    /\ Len(requests) = 4

\* C18: when the listing call of a Run fails, Run returns the error that
\* names the repositories listing, the buckets are as they were before the
\* Run, and no report request is ever sent.
C18_ListingFailureStopsRun ==
    /\ [][(pc = "new" /\ responses' # responses /\ ~responses'[1].ok) =>
             /\ pc' = "failed"
             /\ runErr' = <<"An error occured during repositories listing">>
             /\ Result' = Result]_vars
    /\ []((responses # <<>> /\ ~responses[1].ok) =>
             /\ pc = "failed"
             /\ Len(requests) = 1
             /\ requests[1].call = "listSubsetRepositories")

\* C18 witness: the listing of a second Run has failed, the buckets holding
\* what the first Run left
C18_ListingFailedOverEarlierRecords ==
    /\ pc = "failed"
    /\ Len(responses) = 1
    /\ ~responses[1].ok
    /\ Result.MergedPRs # <<>>
    /\ Result.OpenPRsWithActivity # <<>>

\* s is the beginning of t
IsPrefix(s, t) == Len(s) <= Len(t) /\ \A k \in 1..Len(s) : s[k] = t[k]

\* C20: every step of a Run on a report that an earlier Run has filled leaves
\* what each bucket held as the beginning of what it holds after; nothing is
\* reset when Run starts, so the new records come after the earlier ones.
C20_BucketsAppendOnly ==
    [][/\ IsPrefix(Result.MergedPRs, Result'.MergedPRs)
       /\ IsPrefix(Result.OpenPRsWithActivity, Result'.OpenPRsWithActivity)
       /\ IsPrefix(Result.OpenPRsWithoutActivity, Result'.OpenPRsWithoutActivity)]_vars

\* C20 witness: a second Run given the first one's responses has ended, and
\* each record is there twice
C20_SameResponsesRecordedTwice ==
    /\ pc = "done"
    /\ repositories = <<RepoName(1, 1)>>
    /\ Len(Result.MergedPRs) = 2
    /\ Result.MergedPRs[1] = Result.MergedPRs[2]
    /\ Len(Result.OpenPRsWithActivity) = 2
    /\ Result.OpenPRsWithActivity[1] = Result.OpenPRsWithActivity[2]

====
